---------------------------- MODULE Spec2Model ----------------------------
(***************************************************************************)
(* A model of GeoPlot.render (src/geoplot.py): one render call that walks  *)
(* a state trajectory, extracts coordinates and feature values, builds a   *)
(* synthetic timeline, assembles one feature collection per entity and     *)
(* writes <name>.geojson and <name>.html.                                  *)
(*                                                                         *)
(* Python sequences are 0-based; the model's are 1-based.  A string that   *)
(* the code splits is a sequence of one-character strings.  A timestamp is *)
(* an integer number of seconds; isoformat() is a (day, h, m, s) tuple.    *)
(***************************************************************************)
EXTENDS Integers, Sequences, FiniteSets, TLC

(* ------------------------------ bounds --------------------------------- *)
MaxTrajectory == 3
MaxEntities == 2
MaxNumEpisodes == 3
MaxStepsPerEpisode == 2

StepTimes == {0 - 3600, 0, 3600}
StartTimes == {0, 82800}

(* ------------------------- strings and paths --------------------------- *)
entity_position == <<"a", "/", "c">>
entity_property == <<"a", "/", "f">>
cesium_token == "token"
visualization_type == "color"
name == "sim"
geodata_path == <<name, ".geojson">>
geoplot_path == <<name, ".html">>

\* The placeholders of geoplot_template, in order of first appearance.
geoplot_template == <<"accessToken", "visualType", "data", "startTime", "stopTime">>

RECURSIVE re_split(_, _)
\* re.split("/", var): the segments between the separators, empty ones kept.
re_split(sep, s) ==
    IF \A k \in 1..Len(s) : s[k] # sep
    THEN <<s>>
    ELSE LET p == CHOOSE k \in 1..Len(s) :
                      s[k] = sep /\ \A m \in 1..(k - 1) : s[m] # sep
         IN  <<SubSeq(s, 1, p - 1)>> \o re_split(sep, SubSeq(s, p + 1, Len(s)))

RECURSIVE get_by_path(_, _)
\* One key lookup per segment, left to right; a missing key is a KeyError.
get_by_path(container, segs) ==
    IF segs = <<>>
    THEN [found |-> TRUE, value |-> container]
    ELSE IF Head(segs) \in DOMAIN container
         THEN get_by_path(container[Head(segs)], Tail(segs))
         ELSE [found |-> FALSE, value |-> <<>>]

read_var(state, var) == get_by_path(state, re_split("/", var))

(* --------------------------- numpy helpers ----------------------------- *)
\* np.array(x).tolist() on a list of [lat, lon] pairs: a fresh nested list.
tolist(a) == [k \in 1..Len(a) |-> <<a[k][1], a[k][2]>>]

RECURSIVE flatten(_)
\* np.array(x).flatten().tolist(): the rows concatenated in order.
flatten(a) == IF a = <<>> THEN <<>> ELSE Head(a) \o flatten(Tail(a))

(* ------------------------------ inputs --------------------------------- *)
\* The [lat, lon] of entity e; a moved entity is displaced by 4 degrees.
LatLon(e, moved) ==
    IF moved THEN <<2 * e + 3, 2 * e + 4>> ELSE <<2 * e - 1, 2 * e>>

\* The feature array of an episode, of shape (kv, 1).
FeatureArray(j, kv) == [e \in 1..kv |-> <<10 * (MaxEntities * (j - 1) + e)>>]

MkState(j, kc, kv, moved, hasC, hasF) ==
    LET keys == (IF hasC THEN {<<"c">>} ELSE {}) \cup (IF hasF THEN {<<"f">>} ELSE {})
        inner == [k \in keys |->
                     IF k = <<"c">> THEN [e \in 1..kc |-> LatLon(e, moved)]
                                    ELSE FeatureArray(j, kv)]
    IN  [k \in {<<"a">>} |-> inner]

\* The final states episode j may end in: MaxEntities entities, standing
\* still or moved; one feature value too few; one coordinate too few; one
\* entity fewer; the coordinate path or the feature path missing.
FinalStates(j) ==
    {MkState(j, MaxEntities, MaxEntities, moved, TRUE, TRUE) : moved \in BOOLEAN}
    \cup {MkState(j, MaxEntities, MaxEntities - 1, FALSE, TRUE, TRUE),
          MkState(j, MaxEntities - 1, MaxEntities, FALSE, TRUE, TRUE),
          MkState(j, MaxEntities - 1, MaxEntities - 1, FALSE, TRUE, TRUE)}
    \cup {MkState(j, MaxEntities, MaxEntities, FALSE, FALSE, TRUE),
          MkState(j, MaxEntities, MaxEntities, FALSE, TRUE, FALSE)}

\* An episode is the sequence of its states; only the last one is read.
Episodes(j) == {<<s>> : s \in FinalStates(j)}

RECURSIVE TrajectoriesOfLen(_)
TrajectoriesOfLen(n) ==
    IF n = 0 THEN {<<>>}
    ELSE {Append(t, ep) : t \in TrajectoriesOfLen(n - 1), ep \in Episodes(n)}

Trajectories == UNION {TrajectoriesOfLen(n) : n \in 0..MaxTrajectory}

(* ------------------------------- state --------------------------------- *)
VARIABLES
    num_episodes, num_steps_per_episode, step_time,   \* config and options
    state_trajectory,                                 \* the argument of render
    pc, i, coords, values,                            \* the extraction loop
    start_time, timestamps,                           \* the timeline
    geojsons,                                         \* the collections built
    files,                                            \* the files on disk
    outcome                                           \* how the call ended

vars == <<num_episodes, num_steps_per_episode, step_time, state_trajectory,
          pc, i, coords, values, start_time, timestamps, geojsons,
          files, outcome>>

config == <<num_episodes, num_steps_per_episode, step_time>>

Min(a, b) == IF a <= b THEN a ELSE b
Last(s) == s[Len(s)]

\* GeoPlot.__init__: the configuration is stored, nothing is rendered yet.
Init ==
    /\ num_episodes \in 0..MaxNumEpisodes
    /\ num_steps_per_episode \in 0..MaxStepsPerEpisode
    /\ step_time \in StepTimes
    /\ state_trajectory = <<>>
    /\ pc = "idle"
    /\ i = 1
    /\ coords = <<>>
    /\ values = <<>>
    /\ start_time = 0
    /\ timestamps = <<>>
    /\ geojsons = <<>>
    /\ files = <<>>
    /\ outcome = "none"

(* ------------------------- pure steps of render ------------------------ *)
\* Mutant of zip: the last pair is lost.
zip_short(a, b) == [k \in 1..(Min(Len(a), Len(b)) - 1) |-> <<a[k], b[k]>>]

\* zip(a, b): positional pairs, as many as the shorter argument has.
zip(a, b) == [k \in 1..Min(Len(a), Len(b)) |-> <<a[k], b[k]>>]

\* pd.Timestamp.isoformat(): the date and the time of day of a timestamp.
isoformat(t) == <<t \div 86400, (t % 86400) \div 3600, (t % 3600) \div 60, t % 60>>

\* Mutant of Timeline: the offset ignores step_time.
Timeline_nostep(st, n, step) == [k \in 1..n |-> st + (k - 1)]

\* start_time + pd.Timedelta(seconds=i * step_time) for i in range(n).
Timeline(st, n, step) == [k \in 1..n |-> st + (k - 1) * step]

\* Mutant of Feature: the coordinate is kept in [lat, lon] order.
Feature_noswap(coord, e, time, value_list) ==
    [type |-> "Feature",
     geometry |-> [type |-> "Point", coordinates |-> <<coord[1], coord[2]>>],
     properties |-> [value |-> value_list[e], time |-> isoformat(time)]]

\* One feature of entity e: the coordinate swapped to [lon, lat].
Feature(coord, e, time, value_list) ==
    [type |-> "Feature",
     geometry |-> [type |-> "Point", coordinates |-> <<coord[2], coord[1]>>],
     properties |-> [value |-> value_list[e], time |-> isoformat(time)]]

\* The features of entity e: one per (time, value_list) pair of the zip.
Features(coord, e, ts, vals) ==
    LET pairs == zip(ts, vals)
    IN  [k \in 1..Len(pairs) |-> Feature(coord, e, pairs[k][1], pairs[k][2])]

\* value_list[e] raises IndexError when some paired list is too short.
IndexErrorAt(e, ts, vals) ==
    \E k \in 1..Len(zip(ts, vals)) : Len(vals[k]) < e

\* json.dump / json.dumps: the document with its formatting options.
json_dumps(obj, indent, ensure_ascii) ==
    [doc |-> obj, indent |-> indent, ensure_ascii |-> ensure_ascii]

\* Template.substitute: every placeholder of the template replaced.
substitute(tmpl, mapping) ==
    [p \in {tmpl[k] : k \in 1..Len(tmpl)} |-> mapping[p]]

\* Mutant of HtmlMapping: stopTime is taken from the first timestamp.
HtmlMapping_stopfirst(ts, gj) ==
    [accessToken |-> cesium_token,
     startTime |-> isoformat(ts[1]),
     stopTime |-> isoformat(ts[1]),
     data |-> json_dumps(gj, 0, TRUE),
     visualType |-> visualization_type]

\* The mapping handed to tmpl.substitute.
HtmlMapping(ts, gj) ==
    [accessToken |-> cesium_token,
     startTime |-> isoformat(ts[1]),
     stopTime |-> isoformat(Last(ts)),
     data |-> json_dumps(gj, 0, TRUE),
     visualType |-> visualization_type]

\* open(path, "w"): the file exists and holds `content`.
WriteFile(fs, path, content) ==
    [p \in DOMAIN fs \cup {path} |-> IF p = path THEN content ELSE fs[p]]

(* ------------------------------ actions -------------------------------- *)
\* render is called with a trajectory; coords, values = [], [].
Render ==
    /\ pc = "idle"
    /\ \E t \in Trajectories : state_trajectory' = t
    /\ coords' = <<>>
    /\ values' = <<>>
    /\ i' = 1
    /\ pc' = "loop"
    /\ UNCHANGED <<config, start_time, timestamps, geojsons, files, outcome>>

\* Mutant of LoopRange: every episode is visited.
LoopRange_all(trajectory) == 1..Len(trajectory)

\* The episodes the extraction loop visits: range(0, len(state_trajectory) - 1).
LoopRange(trajectory) == 1..(Len(trajectory) - 1)

\* One iteration of the extraction loop.
LoopStep ==
    /\ pc = "loop"
    /\ i \in LoopRange(state_trajectory)
    /\ LET final_state == Last(state_trajectory[i])
           c == read_var(final_state, entity_position)
           f == read_var(final_state, entity_property)
       IN  IF c.found /\ f.found
           THEN /\ coords' = tolist(c.value)
                /\ values' = Append(values, flatten(f.value))
                /\ i' = i + 1
                /\ UNCHANGED <<pc, outcome>>
           ELSE /\ pc' = "failed"
                /\ outcome' = "KeyError"
                /\ coords' = IF c.found THEN tolist(c.value) ELSE coords
                /\ UNCHANGED <<values, i>>
    /\ UNCHANGED <<config, state_trajectory, start_time, timestamps, geojsons, files>>

\* The loop is over: capture the start time and build the timestamps.
MakeTimeline ==
    /\ pc = "loop"
    /\ i \notin LoopRange(state_trajectory)
    /\ \E st \in StartTimes :
          /\ start_time' = st
          /\ timestamps' = Timeline(st, num_episodes * num_steps_per_episode, step_time)
    /\ geojsons' = <<>>
    /\ i' = 1
    /\ pc' = "encode"
    /\ UNCHANGED <<config, state_trajectory, coords, values, files, outcome>>

\* One iteration of `for i, coord in enumerate(coords)`.
EncodeEntity ==
    /\ pc = "encode"
    /\ i <= Len(coords)
    /\ IF IndexErrorAt(i, timestamps, values)
       THEN /\ pc' = "failed"
            /\ outcome' = "IndexError"
            /\ UNCHANGED <<geojsons, i>>
       ELSE /\ geojsons' = Append(geojsons,
                               [type |-> "FeatureCollection",
                                features |-> Features(coords[i], i, timestamps, values)])
            /\ i' = i + 1
            /\ UNCHANGED <<pc, outcome>>
    /\ UNCHANGED <<config, state_trajectory, coords, values, start_time, timestamps, files>>

\* with open(geodata_path, "w") as f: json.dump(geojsons, f, ...).
DumpGeojson ==
    /\ pc = "encode"
    /\ i > Len(coords)
    /\ files' = WriteFile(files, geodata_path, json_dumps(geojsons, 2, FALSE))
    /\ pc' = "html"
    /\ UNCHANGED <<config, state_trajectory, i, coords, values, start_time,
                   timestamps, geojsons, outcome>>

\* with open(geoplot_path, "w") as f: f.write(tmpl.substitute({...})).
\* The file is opened (created empty) before the arguments are evaluated.
WriteHtml ==
    /\ pc = "html"
    /\ IF timestamps = <<>>
       THEN /\ files' = WriteFile(files, geoplot_path, <<>>)
            /\ pc' = "failed"
            /\ outcome' = "IndexError"
       ELSE /\ files' = WriteFile(files, geoplot_path,
                           substitute(geoplot_template,
                                      HtmlMapping(timestamps, geojsons)))
            /\ pc' = "done"
            /\ outcome' = "returned"
    /\ UNCHANGED <<config, state_trajectory, i, coords, values, start_time,
                   timestamps, geojsons>>

Next ==
    \/ Render
    \/ LoopStep
    \/ MakeTimeline
    \/ EncodeEntity
    \/ DumpGeojson
    \/ WriteHtml

Spec == Init /\ [][Next]_vars

(* --------------------- vocabulary of the properties -------------------- *)
N == Len(state_trajectory)
TimelineLen == num_episodes * num_steps_per_episode
Written(path) == path \in DOMAIN files
Called == pc # "idle"

\* The seconds a (day, h, m, s) tuple stands for.
seconds(iso) == iso[1] * 86400 + iso[2] * 3600 + iso[3] * 60 + iso[4]

\* What the final state of episode j holds at the two paths.
InputCoords(j) == read_var(Last(state_trajectory[j]), entity_position)
InputValues(j) == read_var(Last(state_trajectory[j]), entity_property)
WellFormed(j) == InputCoords(j).found /\ InputValues(j).found
FlatValues(j) == flatten(InputValues(j).value)

\* [lat, lon] -> [lon, lat]
Swapped(c) == <<c[2], c[1]>>

(* ------------------------------ claims --------------------------------- *)
\* Every final state of the trajectory holds K coordinates and K values.
UniformK(K) ==
    \A j \in 1..N : /\ WellFormed(j)
                    /\ Len(InputCoords(j).value) = K
                    /\ Len(FlatValues(j)) = K

\* C1: a completed render of N >= 2 episodes with K coordinates and K values
\* each, num_episodes = N and num_steps_per_episode >= 1, emits exactly K
\* collections of exactly N features each.
C1_CollectionsAndFeatures ==
    (/\ pc = "done"
     /\ N >= 2
     /\ num_episodes = N
     /\ num_steps_per_episode >= 1)
    => \A K \in 0..MaxEntities :
          UniformK(K) =>
             /\ Len(files[geodata_path].doc) = K
             /\ \A c \in 1..K : Len(files[geodata_path].doc[c].features) = N

C3_NoFileOnFailure ==
    pc = "failed" => ~Written(geodata_path) /\ ~Written(geoplot_path)

\* C4: in a completed render (num_episodes = N, num_steps_per_episode >= 1)
\* the j-th feature of collection e carries element e of the flattened
\* feature values of the final state of episode j, for every episode j.
C4_ValuePerEpisode ==
    (/\ pc = "done"
     /\ num_episodes = N
     /\ num_steps_per_episode >= 1)
    => \A e \in 1..Len(geojsons) : \A j \in 1..N :
          (WellFormed(j) /\ e <= Len(FlatValues(j))) =>
              /\ j <= Len(geojsons[e].features)
              /\ geojsons[e].features[j].properties.value = FlatValues(j)[e]

\* Some consumed episode has a coordinate count that differs from its
\* flattened feature-value count.
ShapeMismatch ==
    \E j \in LoopRange(state_trajectory) :
        /\ \A m \in LoopRange(state_trajectory) : WellFormed(m)
        /\ Len(InputCoords(j).value) # Len(FlatValues(j))

\* C5: a render (here with a non-empty timeline) with a shape mismatch in
\* a consumed episode ends in a failure and emits no feature collection.
C5_ShapeMismatchFails ==
    (Called /\ ShapeMismatch /\ TimelineLen >= 1) =>
        /\ pc # "done"
        /\ Written(geodata_path) => files[geodata_path].doc = <<>>

\* The time of feature k of collection c, in seconds.
FeatureTime(c, k) == seconds(geojsons[c].features[k].properties.time)

\* C6 as stated: for every step duration, the times of a collection are
\* strictly increasing, step_time apart, and the same in every collection.
C6_StrictlyIncreasing ==
    \A c \in 1..Len(geojsons) : \A k \in 1..Len(geojsons[c].features) :
        /\ FeatureTime(c, k) = start_time + (k - 1) * step_time
        /\ k > 1 => /\ FeatureTime(c, k) - FeatureTime(c, k - 1) = step_time
                    /\ FeatureTime(c, k - 1) < FeatureTime(c, k)

\* C6 amended: the time at index k is start_time + k * step_time in every
\* collection and consecutive features are step_time apart; the times are
\* strictly increasing exactly when step_time > 0.
C6_TimesFollowStep ==
    \A c \in 1..Len(geojsons) : \A k \in 1..Len(geojsons[c].features) :
        /\ FeatureTime(c, k) = start_time + (k - 1) * step_time
        /\ \A d \in 1..Len(geojsons) :
              geojsons[d].features[k].properties.time
                  = geojsons[c].features[k].properties.time
        /\ k > 1 => /\ FeatureTime(c, k) - FeatureTime(c, k - 1) = step_time
                    /\ (FeatureTime(c, k - 1) < FeatureTime(c, k)) <=> (step_time > 0)

C6_Witness ==
    /\ pc = "done"
    /\ step_time > 0
    /\ start_time # 0
    /\ Len(geojsons) >= 2
    /\ Len(geojsons[1].features) >= 2

\* C7 as stated: the timeline is never shorter than the list of extracted
\* per-episode value lists, so the zip drops none.
C7_ZipDropsNothing ==
    pc \in {"encode", "html", "done"} => Len(timestamps) >= Len(values)

\* C7 amended: every collection has min(timeline length, extracted lists)
\* features, so no extracted list is dropped whenever
\* len(trajectory) - 1 <= num_episodes * num_steps_per_episode.
C7_ZipKeepsShorter ==
    pc \in {"encode", "html", "done"} =>
        /\ Len(timestamps) = TimelineLen
        /\ Len(values) = (IF N = 0 THEN 0 ELSE N - 1)
        /\ \A c \in 1..Len(geojsons) :
              /\ Len(geojsons[c].features) = Min(TimelineLen, Len(values))
              /\ N - 1 <= TimelineLen =>
                    \A j \in 1..Len(values) :
                        /\ geojsons[c].features[j].properties.value = values[j][c]
                        /\ geojsons[c].features[j].properties.time
                               = isoformat(timestamps[j])

C7_Witness ==
    /\ pc = "done"
    /\ Len(values) = 2
    /\ TimelineLen >= 2
    /\ Len(geojsons) >= 1

\* C8: every feature of collection e has coordinates [c[1], c[0]] for the
\* retained input coordinate c = [lat, lon] of entity e, and the retained
\* list still equals what the input holds.
C8_CoordinatesSwapped ==
    (pc \in {"encode", "html", "done"} /\ N >= 2) =>
        /\ coords = InputCoords(N - 1).value
        /\ Len(geojsons) <= Len(coords)
        /\ \A e \in 1..Len(geojsons) : \A k \in 1..Len(geojsons[e].features) :
              geojsons[e].features[k].geometry.coordinates
                  = <<InputCoords(N - 1).value[e][2], InputCoords(N - 1).value[e][1]>>

C8_Witness ==
    /\ pc = "done"
    /\ Len(geojsons) >= 2
    /\ Len(geojsons[2].features) >= 2

\* C9: the coordinates of every feature are those read from the final
\* state of the last episode of the trajectory, and the number of
\* collections is that episode's entity count.
C9_LastEpisodeCoordinates ==
    (pc = "done" /\ N >= 2 /\ WellFormed(N)) =>
        /\ Len(geojsons) = Len(InputCoords(N).value)
        /\ \A e \in 1..Len(geojsons) : \A k \in 1..Len(geojsons[e].features) :
              geojsons[e].features[k].geometry.coordinates
                  = Swapped(InputCoords(N).value[e])

\* C10: in a completed render startTime and stopTime are the first and the
\* last timeline entry, every feature time lies between them when
\* step_time >= 0, and the html inlines the collections of the geojson file.
C10_HtmlBounds ==
    pc = "done" =>
        /\ files[geoplot_path]["startTime"] = isoformat(start_time)
        /\ files[geoplot_path]["stopTime"]
               = isoformat(start_time + (TimelineLen - 1) * step_time)
        /\ files[geoplot_path]["data"].doc = files[geodata_path].doc
        /\ files[geodata_path].doc = geojsons
        /\ step_time >= 0 =>
              \A c \in 1..Len(geojsons) : \A k \in 1..Len(geojsons[c].features) :
                  /\ seconds(files[geoplot_path]["startTime"]) <= FeatureTime(c, k)
                  /\ FeatureTime(c, k) <= seconds(files[geoplot_path]["stopTime"])

C10_Witness ==
    /\ pc = "done"
    /\ step_time > 0
    /\ TimelineLen >= 3
    /\ Len(geojsons) >= 1
    /\ Len(geojsons[1].features) >= 2

=============================================================================
